---- MODULE Spec2Model ----
(***************************************************************************)
(* ELIT21 storefront: session cart, order creation, PayPal order creation  *)
(* and capture (src/elit21/web/app.py) and the admin console's writes to   *)
(* the same SQLite store (src/elit21/admin/app.py).                        *)
(*                                                                         *)
(* Store model.  Every handler opens its own sqlite3 connection            *)
(* (db.get_connection).  With the sqlite3 module's default isolation a     *)
(* SELECT issued before the connection's first INSERT/UPDATE runs outside  *)
(* any transaction and sees the committed store; the first INSERT/UPDATE   *)
(* opens a transaction and takes the store's single write lock, which is   *)
(* held until commit(), rollback() or close().  "db" is the committed      *)
(* store, "txn" the working copy of the connection holding the write lock  *)
(* and "writer" that connection.  A handler is split into several actions  *)
(* exactly where another connection can run in between.                    *)
(*                                                                         *)
(* Units: a Python float amount (product price, SHIPPING_FEE) is an        *)
(* integer number of mills (1/1000 EUR); a Decimal quantized by to_money   *)
(* is an integer number of cents.                                          *)
(***************************************************************************)
EXTENDS Integers, Sequences, FiniteSets, TLC

\* ------------------------------------------------------------- bounds
NumReqs == 2        \* web requests in flight at the same time
MaxExt == 2         \* PayPal order ids the gateway can issue
MaxQty == 1         \* largest quantity the admin types into the inventory form
MaxUnits == 2       \* largest quantity of a cart line where totals are computed

\* ---------------------------------------------------------- constants
SHIPPING_FEE == 9990   \* mills: float(os.getenv("SHIPPING_FEE", "9.99"))

None == "None"
Reqs == 1..NumReqs
Users == {"u1", "u2"}
ProductId == "5"      \* products.id of the one product on sale, as a cart key spells it
V1 == <<ProductId, "Red", "M">>
V2 == <<ProductId, "Red", "L">>
Variants == {V1, V2}
VariantSeq == <<V1, V2>>
Prices == {19990, 24995}
ExtName == <<"EXT1", "EXT2", "EXT3", "EXT4">>
ExtIds == {ExtName[i] : i \in 1..MaxExt}
CaptureIds == {"CAP1"}
OrderIds == 1..MaxExt
Statuses == {"pending", "processing", "accepted", "confirmed", "completed"}

\* ------------------------------------------------------ pure helpers
\* Option values: <<>> is Python's None / a missing key, <<x>> a present x.
Absent == <<>>
Some(x) == <<x>>

\* to_money on a float: Decimal(str(v)).quantize(Decimal("0.01"), ROUND_HALF_UP)
to_money(mills) == (mills + 5) \div 10

\* payment_status strings "pending", "paypal_order:<id>", "paid:<id>"
Pending == <<"pending", "">>
PaypalOrder(x) == <<"paypal_order", x>>
Paid(y) == <<"paid", y>>

RECURSIVE SumSeq(_)
SumSeq(s) == IF s = <<>> THEN 0 ELSE Head(s) + SumSeq(Tail(s))

RECURSIVE SumOver(_, _)
SumOver(f, S) ==
    IF S = {} THEN 0
    ELSE LET x == CHOOSE y \in S : TRUE IN f[x] + SumOver(f, S \ {x})

MaxOf(S) == CHOOSE x \in S : \A y \in S : y <= x

VARIABLES
    db,        \* the committed store
    txn,       \* Some(working copy) of the connection holding the write lock
    writer,    \* the request holding the write lock, 0 when it is free
    cart,      \* session["cart"] of each logged-in user
    req,       \* each web request in flight: handler position and locals
    response,  \* Some(answer) in the state that follows a handler's return
    gwIssued,  \* PayPal order ids issued by the gateway so far
    tree,      \* admin console: order ids listed in orders_tree
    captured   \* history: <<order id, PayPal order id, carried>> of committed captures

vars == <<db, txn, writer, cart, req, response, gwIssued, tree, captured>>

\* ------------------------------------------------------------- store
EmptyCart == [v \in Variants |-> 0]

IdleReq ==
    [pc |-> "idle", kind |-> None, user |-> None, ext |-> None, local |-> 0,
     order |-> 0, total |-> 0, items |-> <<>>, idx |-> 0, inv |-> 0,
     paidId |-> None, carried |-> FALSE,
     env |-> None, fallback |-> FALSE, envs |-> <<>>, index |-> 0, http |-> <<>>]

InitDb(q) ==
    [products |-> [price |-> 19990, stock |-> q, status |-> "active"],
     inventory |-> [v \in {V1} |-> q],
     orders |-> <<>>,
     items |-> <<>>,
     transactions |-> <<>>]

Init ==
    /\ \E q \in 1..MaxQty : db = InitDb(q)
    /\ txn = Absent
    /\ writer = 0
    /\ cart = [u \in Users |-> EmptyCart]
    /\ req = [r \in Reqs |-> IdleReq]
    /\ response = Absent
    /\ gwIssued = {}
    /\ tree = {}
    /\ captured = {}

\* SELECT COALESCE(SUM(quantity), 0) FROM product_inventory WHERE product_id = ?
total_stock(inventory) == SumOver(inventory, DOMAIN inventory)

\* A handler returns: the slot is free again and the caller has its answer, with
\* the request it answers and whether paypal_request was called on the way.
Answer(q, res, called) ==
    Some([kind |-> q.kind, user |-> q.user, ext |-> q.ext, local |-> q.local,
          order |-> q.order, called |-> called, result |-> res,
          http |-> q.http])

Return(r, q, res, called) ==
    /\ req' = [req EXCEPT ![r] = IdleReq]
    /\ response' = Answer(q, res, called)

\* A handler moves on to its next step.
Goto(r, q) ==
    /\ req' = [req EXCEPT ![r] = q]
    /\ response' = Absent

\* A new request is served by the first free slot.
Free(r) ==
    /\ req[r].pc = "idle"
    /\ \A q \in 1..(r - 1) : req[q].pc # "idle"

\* Fault: the connection's pending writes reach the store when it is closed.
close_committing(w) ==
    /\ db' = w
    /\ txn' = Absent
    /\ writer' = 0

\* Fault: the except branch leaves without conn.rollback() and the pending
\* writes reach the store.
rollback_skipped(w) ==
    /\ db' = w
    /\ txn' = Absent
    /\ writer' = 0

\* conn.close(), or the connection dropped by an uncaught exception, while its
\* transaction (working copy w) is open: sqlite3 discards the transaction and
\* frees the write lock.
close_uncommitted(w) ==
    /\ db' = db
    /\ txn' = Absent
    /\ writer' = 0

\* conn.rollback(); conn.close()
rollback(w) ==
    /\ db' = db
    /\ txn' = Absent
    /\ writer' = 0

\* conn.commit(); conn.close()
commit(w) ==
    /\ db' = w
    /\ txn' = Absent
    /\ writer' = 0

\* ------------------------------------------------------------- cart
AddInputs == Variants \cup {<<ProductId, "", "M">>, <<ProductId, "Red", "">>}

\* Fault: add_to_cart without the comparison of lines 490-492.
add_to_cart_uncompared(r, u, v) ==
    /\ Free(r)
    /\ LET hasRow == v \in DOMAIN db.inventory
           current_quantity == IF v \in Variants THEN cart[u][v] ELSE 0
           res == IF db.products.status # "active" THEN "Unavailable"
                  ELSE IF v[2] = "" \/ v[3] = "" THEN "ValidationError"
                  ELSE IF ~hasRow \/ db.inventory[v] <= 0 THEN "OutOfStock"
                  ELSE "ok"
       IN /\ cart' = (IF res = "ok"
                      THEN [cart EXCEPT ![u][v] = current_quantity + 1]
                      ELSE cart)
          /\ Return(r, [IdleReq EXCEPT !.kind = "add", !.user = u], res, FALSE)
    /\ UNCHANGED <<db, txn, writer, gwIssued, tree, captured>>

\* add_to_cart: POST /cart/add/<product_id> with form fields color, size
add_to_cart(r, u, v) ==
    /\ Free(r)
    /\ LET color == v[2]
           size == v[3]
           hasRow == v \in DOMAIN db.inventory
           current_quantity == IF v \in Variants THEN cart[u][v] ELSE 0
           res == IF db.products.status # "active" THEN "Unavailable"
                  ELSE IF color = "" \/ size = "" THEN "ValidationError"
                  ELSE IF ~hasRow \/ db.inventory[v] <= 0 THEN "OutOfStock"
                  ELSE IF current_quantity + 1 > db.inventory[v]
                       THEN "InsufficientStock"
                  ELSE "ok"
       IN /\ cart' = (IF res = "ok"
                      THEN [cart EXCEPT ![u][v] = current_quantity + 1]
                      ELSE cart)
          /\ Return(r, [IdleReq EXCEPT !.kind = "add", !.user = u], res, FALSE)
    /\ UNCHANGED <<db, txn, writer, gwIssued, tree, captured>>

\* update_cart_item: POST /cart/update with form fields cart_key, quantity.
\* quantity_str.isdigit() fails for a signed number, so n < 0 is "invalid".
update_cart_item(r, u, v, n) ==
    /\ Free(r)
    /\ LET hasRow == v \in DOMAIN db.inventory
           res == IF n < 0 THEN "ValidationError"
                  ELSE IF n <= 0 THEN "ok"
                  ELSE IF ~hasRow \/ n > db.inventory[v] THEN "InsufficientStock"
                  ELSE "ok"
       IN /\ cart' = (IF res = "ok" THEN [cart EXCEPT ![u][v] = n] ELSE cart)
          /\ Return(r, [IdleReq EXCEPT !.kind = "update", !.user = u], res, FALSE)
    /\ UNCHANGED <<db, txn, writer, gwIssued, tree, captured>>

\* remove_cart_item: POST /cart/remove with form field cart_key
remove_cart_item(r, u, v) ==
    /\ Free(r)
    /\ cart' = [cart EXCEPT ![u][v] = 0]
    /\ Return(r, [IdleReq EXCEPT !.kind = "remove", !.user = u], "ok", FALSE)
    /\ UNCHANGED <<db, txn, writer, gwIssued, tree, captured>>

\* load_cart_items: one line per cart entry, with the product row as read now
RECURSIVE CartLines(_, _, _)
CartLines(c, price, vs) ==
    IF vs = <<>> THEN <<>>
    ELSE LET v == Head(vs)
             rest == CartLines(c, price, Tail(vs))
         IN IF c[v] > 0
            THEN <<[variant |-> v, quantity |-> c[v], price |-> price]>> \o rest
            ELSE rest

load_cart_items(u) == CartLines(cart[u], db.products.price, VariantSeq)

RECURSIVE Subtotal(_)
Subtotal(items) ==
    IF items = <<>> THEN 0
    ELSE Head(items).price * Head(items).quantity + Subtotal(Tail(items))

\* Fault: the shipping fee left out of the total.
total_money_without_shipping(items) == to_money(Subtotal(items))

\* total_money = to_money(to_money(subtotal) + to_money(SHIPPING_FEE)), in cents
\* (to_money of a sum of two quantized Decimals is that sum)
total_money(items) == to_money(Subtotal(items)) + to_money(SHIPPING_FEE)

\* ----------------------------------------------------- paypal_request
\* How one paypal_request call ends for its caller.  "runtime_error" is every
\* RuntimeError it raises (placeholder credentials, rejected token exchange,
\* URLError, non-2xx API answer); "exception" is an error it does not convert
\* (a read timeout or an undecodable body), which no caller catches;
\* "response" is a decoded JSON body.
PaypalOutcomes == {"runtime_error", "exception", "response"}

\* PAYPAL_ENV as get_paypal_settings returns it (stripped, lower case)
Envs == {"sandbox", "live", "prod"}

\* How one HTTP exchange (urlopen or direct_opener.open, then response.read and
\* json.loads) ends: a JSON body ("ok"; "ok_no_token" is a body without
\* access_token), an HTTPError, a URLError whose reason contains "tunnel
\* connection failed", any other URLError (DNS, refused, connect timeout), or
\* an error that is no URLError (read timeout, undecodable body).
Exchanges ==
    {"ok", "ok_no_token", "http_401_invalid_client", "http_401_other",
     "http_500", "tunnel_failed", "url_error", "read_error"}

\* Fault: open_request retrying without proxy on every URLError that is no
\* HTTP answer.
open_request_any_error(step, env, first, second) ==
    LET default == [step |-> step, env |-> env, via |-> "default", outcome |-> first]
        direct == [step |-> step, env |-> env, via |-> "direct", outcome |-> second]
    IN IF first \in {"tunnel_failed", "url_error"}
       THEN [sent |-> <<default, direct>>, outcome |-> second]
       ELSE [sent |-> <<default>>, outcome |-> first]

\* Fault: open_request trying the direct opener a second time when it too
\* fails on a tunnel.
open_request_persistent(step, env, first, second) ==
    LET default == [step |-> step, env |-> env, via |-> "default", outcome |-> first]
        direct == [step |-> step, env |-> env, via |-> "direct", outcome |-> second]
    IN IF first = "tunnel_failed"
       THEN IF second = "tunnel_failed"
            THEN [sent |-> <<default, direct, direct>>, outcome |-> second]
            ELSE [sent |-> <<default, direct>>, outcome |-> second]
       ELSE [sent |-> <<default>>, outcome |-> first]

\* Lines 163-170, open_request: the request through the default opener, and
\* through direct_opener when that failed on the proxy tunnel.  "first" and
\* "second" are how the network ends the two exchanges.
open_request(step, env, first, second) ==
    LET default == [step |-> step, env |-> env, via |-> "default", outcome |-> first]
        direct == [step |-> step, env |-> env, via |-> "direct", outcome |-> second]
    IN IF first = "tunnel_failed"
       THEN [sent |-> <<default, direct>>, outcome |-> second]
       ELSE [sent |-> <<default>>, outcome |-> first]

\* Fault: the alternate environment is a candidate whatever the toggle says.
environment_candidates_always(env, fallback) ==
    LET normalized == IF env \in {"sandbox", "live"} THEN env ELSE "sandbox"
        alternate == IF normalized = "sandbox" THEN "live" ELSE "sandbox"
    IN <<normalized, alternate>>

\* Lines 179-187, environment_candidates; fallback is PAYPAL_ENV_AUTO_FALLBACK
environment_candidates(env, fallback) ==
    LET normalized == IF env \in {"sandbox", "live"} THEN env ELSE "sandbox"
        alternate == IF normalized = "sandbox" THEN "live" ELSE "sandbox"
    IN IF fallback THEN <<normalized, alternate>> ELSE <<normalized>>

\* Lines 140-162 and 188-192: the credentials check, then the candidates.
PaypalStart(r, configured, env, fallback) ==
    /\ Free(r)
    /\ LET q == [IdleReq EXCEPT !.kind = "paypal", !.env = env,
                                !.fallback = fallback]
       IN IF ~configured THEN Return(r, q, "runtime_error", FALSE)
          ELSE Goto(r, [q EXCEPT !.pc = "p_token", !.index = 1,
                                 !.envs = environment_candidates(env, fallback)])
    /\ UNCHANGED <<db, txn, writer, cart, gwIssued, tree, captured>>

\* Lines 193-244, one pass of the loop: the token request to one candidate.
TokenRequest(r, first, second) ==
    /\ req[r].pc = "p_token"
    /\ LET candidate_env == req[r].envs[req[r].index]
           got == open_request("token", candidate_env, first, second)
           q == [req[r] EXCEPT !.http = @ \o got.sent]
       IN IF got.outcome = "ok"
          THEN Goto(r, [q EXCEPT !.pc = "p_api", !.env = candidate_env])
          ELSE IF got.outcome = "ok_no_token"
          THEN Return(r, q, "runtime_error", TRUE)
          ELSE IF got.outcome = "read_error"
          THEN Return(r, q, "exception", TRUE)
          ELSE IF /\ got.outcome = "http_401_invalid_client"
                  /\ req[r].index < Len(req[r].envs)
          THEN Goto(r, [q EXCEPT !.index = @ + 1])
          ELSE Return(r, q, "runtime_error", TRUE)
    /\ UNCHANGED <<db, txn, writer, cart, gwIssued, tree, captured>>

\* Lines 261-306: the API request to the environment that gave the token.
ApiRequest(r, first, second) ==
    /\ req[r].pc = "p_api"
    /\ LET got == open_request("api", req[r].env, first, second)
           q == [req[r] EXCEPT !.http = @ \o got.sent]
       IN IF got.outcome \in {"ok", "ok_no_token"}
          THEN Return(r, q, "response", TRUE)
          ELSE IF got.outcome = "read_error"
          THEN Return(r, q, "exception", TRUE)
          ELSE Return(r, q, "runtime_error", TRUE)
    /\ UNCHANGED <<db, txn, writer, cart, gwIssued, tree, captured>>

\* ------------------------------------------------- create_paypal_order
\* The shipping form.  A field's text is empty (or the key is missing: .get
\* defaults to ""), blank, or some text; strip() empties a blank one.
Fields ==
    {"customer_name", "house_number", "street", "apartment", "city",
     "province", "country", "postal_code"}
strip(text) == IF text = " " THEN "" ELSE text

\* The complete form, and the forms with one field left empty or blank, and
\* the form with nothing filled in.
Forms ==
    LET complete == [f \in Fields |-> "x"]
    IN {complete, [f \in Fields |-> ""]}
       \cup {[complete EXCEPT ![f] = t] : f \in Fields, t \in {"", " "}}

\* Fault: the postal code left out of required_fields.
collect_shipping_data_without_postal_code(form_data) ==
    LET value == [f \in Fields |-> strip(form_data[f])]
        required_fields == <<value.customer_name, value.house_number,
                             value.street, value.city, value.province,
                             value.country>>
    IN IF \E i \in DOMAIN required_fields : required_fields[i] = ""
       THEN Absent
       ELSE Some([customer_name |-> value.customer_name,
                  address |-> <<value.house_number, value.street,
                                value.apartment, value.city, value.province,
                                value.country, value.postal_code>>,
                  city |-> value.city, country |-> value.country,
                  postal_code |-> value.postal_code])

\* collect_shipping_data: None unless all(required_fields), the apartment
\* being optional
collect_shipping_data(form_data) ==
    LET value == [f \in Fields |-> strip(form_data[f])]
        required_fields == <<value.customer_name, value.house_number,
                             value.street, value.city, value.province,
                             value.country, value.postal_code>>
    IN IF \E i \in DOMAIN required_fields : required_fields[i] = ""
       THEN Absent
       ELSE Some([customer_name |-> value.customer_name,
                  address |-> <<value.house_number, value.street,
                                value.apartment, value.city, value.province,
                                value.country, value.postal_code>>,
                  city |-> value.city, country |-> value.country,
                  postal_code |-> value.postal_code])

\* Fault: only the first cart line is checked and inserted.
InsertItems_first_line(store, order_id, items) ==
    IF items = <<>> THEN [store |-> store, short |-> FALSE]
    ELSE LET item == Head(items)
             inventory == store.inventory
             short == \/ item.variant \notin DOMAIN inventory
                      \/ inventory[item.variant] < item.quantity
             row == [order_id |-> order_id, variant |-> item.variant,
                     quantity |-> item.quantity, price |-> item.price]
         IN IF short THEN [store |-> store, short |-> TRUE]
            ELSE [store |-> [store EXCEPT !.items = Append(@, row)],
                  short |-> FALSE]

\* Lines 699-733: the loop over the cart lines, which stops at the first line
\* whose stock is short: stock check, then INSERT INTO order_items.
RECURSIVE InsertItems(_, _, _)
InsertItems(store, order_id, items) ==
    IF items = <<>> THEN [store |-> store, short |-> FALSE]
    ELSE LET item == Head(items)
             inventory == store.inventory
             short == \/ item.variant \notin DOMAIN inventory
                      \/ inventory[item.variant] < item.quantity
             row == [order_id |-> order_id, variant |-> item.variant,
                     quantity |-> item.quantity, price |-> item.price]
         IN IF short THEN [store |-> store, short |-> TRUE]
            ELSE InsertItems([store EXCEPT !.items = Append(@, row)],
                             order_id, Tail(items))

\* Lines 631-733: shipping data, cart lines and totals; then INSERT INTO orders
\* opens the transaction and takes the write lock, and the loop runs in it.  The
\* reads before the INSERT (session cart, products) do not depend on anything a
\* concurrent writer changes between them and the INSERT, so the steps are one
\* action, taken when the lock is free; a request that waits 5 s for the lock
\* of another connection dies of sqlite3.OperationalError (see DbLocked).
CreateInsert(r, u, shipping_ok) ==
    /\ Free(r)
    /\ LET items == load_cart_items(u)
           order_id == Len(db.orders) + 1
           total == total_money(items)
           row == [id |-> order_id, customer_email |-> u,
                   status |-> "pending", payment_status |-> Pending,
                   total |-> total]
           w == InsertItems([db EXCEPT !.orders = Append(@, row)],
                            order_id, items)
           q == [IdleReq EXCEPT !.kind = "create", !.user = u]
           q2 == [q EXCEPT !.order = order_id, !.total = total, !.items = items]
       IN IF ~shipping_ok
          THEN /\ Return(r, q, "ValidationError", FALSE)
               /\ UNCHANGED <<db, txn, writer>>
          ELSE IF items = <<>>
          THEN /\ Return(r, q, "EmptyCart", FALSE)
               /\ UNCHANGED <<db, txn, writer>>
          ELSE IF writer # 0
          THEN /\ Return(r, q, "ServerError", FALSE)
               /\ UNCHANGED <<db, txn, writer>>
          ELSE IF w.short
          THEN /\ close_uncommitted(w.store)
               /\ Return(r, q2, "InsufficientStock", FALSE)
          ELSE /\ txn' = Some(w.store)
               /\ writer' = r
               /\ db' = db
               /\ Goto(r, [q2 EXCEPT !.pc = "c_gateway"])
    /\ UNCHANGED <<cart, gwIssued, tree, captured>>

\* Lines 734-817: the gateway call and what follows it.  An answer with an id
\* carries an id the gateway has not issued before.
CreateGateway(r, outcome, id) ==
    /\ req[r].pc = "c_gateway"
    /\ IF outcome = "runtime_error"
       THEN /\ rollback(txn[1])
            /\ Return(r, req[r], "PaymentFailed", TRUE)
            /\ UNCHANGED gwIssued
       ELSE IF outcome = "exception"
       THEN /\ close_uncommitted(txn[1])
            /\ Return(r, req[r], "ServerError", TRUE)
            /\ UNCHANGED gwIssued
       ELSE IF id = Absent
       THEN /\ rollback(txn[1])
            /\ Return(r, req[r], "PaymentFailed", TRUE)
            /\ UNCHANGED gwIssued
       ELSE /\ commit([txn[1] EXCEPT
                   !.orders[req[r].order].payment_status = PaypalOrder(id[1])])
            /\ Return(r, [req[r] EXCEPT !.ext = id[1]], "ok", TRUE)
            /\ gwIssued' = gwIssued \cup {id[1]}
    /\ UNCHANGED <<cart, tree, captured>>

\* ------------------------------------- capture_paypal_order_for_current_user
\* money_as_text / format(value, ".2f"): cents as (units, two fraction digits)
money_as_text(cents) == <<cents \div 100, cents % 100>>

\* Lines 746-765: purchase_units[0] of the order sent to the gateway.
purchase_unit(order_id, items) ==
    [reference_id |-> order_id,
     value |-> money_as_text(total_money(items)),
     item_total |-> money_as_text(to_money(Subtotal(items))),
     shipping |-> money_as_text(to_money(SHIPPING_FEE))]

\* The capture answers the gateway can give for an order of the given total:
\* status, purchase_units[0].reference_id and the first capture's id, amount
\* value and currency code, each JSON key present or not.
Responses(total) ==
    {[status |-> "PENDING", reference_id |-> Absent, currency |-> Absent,
      amount |-> Absent, capture_id |-> Absent]}
    \cup
    [status : {"COMPLETED"},
     reference_id : {Absent} \cup {Some(o) : o \in OrderIds},
     currency : {Absent, Some("EUR"), Some("USD")},
     amount : {Absent, Some(money_as_text(total)), Some(money_as_text(total + 1))},
     capture_id : {Absent} \cup {Some(c) : c \in CaptureIds}]

\* The body that paypal_request did not return (it raised instead).
NoResponse ==
    [status |-> "", reference_id |-> Absent, currency |-> Absent,
     amount |-> Absent, capture_id |-> Absent]

\* Fault: the fallback lookup of lines 841-853 without its payment_status test.
resolve_order_of_customer(store, u, paypal_order_id, local_order_id) ==
    LET ids == DOMAIN store.orders
        matches == {o \in ids : store.orders[o].customer_email = u}
    IN IF local_order_id # 0 /\ local_order_id \in ids THEN local_order_id
       ELSE IF matches # {} THEN MaxOf(matches)
       ELSE 0

\* Lines 834-854: the order named by local_order_id, else the newest order of
\* this customer whose payment_status is "paypal_order:<id>"; 0 when none.
resolve_order(store, u, paypal_order_id, local_order_id) ==
    LET ids == DOMAIN store.orders
        matches == {o \in ids :
                       /\ store.orders[o].payment_status = PaypalOrder(paypal_order_id)
                       /\ store.orders[o].customer_email = u}
    IN IF local_order_id # 0 /\ local_order_id \in ids THEN local_order_id
       ELSE IF matches # {} THEN MaxOf(matches)
       ELSE 0

\* Fault: the comparison of lines 862-869 left out.
awaits_capture_unchecked(order, paypal_order_id) == TRUE

\* Lines 862-869: the order still waits for the capture of this gateway order.
awaits_capture(order, paypal_order_id) ==
    order.payment_status = PaypalOrder(paypal_order_id)

\* Fault: the comparison of customer_email of lines 855-861 left out.
CaptureResolve_any_customer(r, u, paypal_order_id, local_order_id) ==
    /\ Free(r)
    /\ LET found == resolve_order(db, u, paypal_order_id, local_order_id)
           q == [IdleReq EXCEPT !.kind = "capture", !.user = u,
                                !.ext = paypal_order_id, !.order = found]
           a == [q EXCEPT !.local = local_order_id]
       IN IF paypal_order_id = "" THEN Return(r, a, "ValidationError", FALSE)
          ELSE IF found = 0 THEN Return(r, a, "OrderNotFound", FALSE)
          ELSE IF ~awaits_capture(db.orders[found], paypal_order_id)
          THEN Return(r, a, "InconsistentState", FALSE)
          ELSE Goto(r, [q EXCEPT !.pc = "k_gateway",
                                 !.total = db.orders[found].total])
    /\ UNCHANGED <<db, txn, writer, cart, gwIssued, tree, captured>>

\* Lines 823-870: resolve the order and compare its payment_status.
CaptureResolve(r, u, paypal_order_id, local_order_id) ==
    /\ Free(r)
    /\ LET found == resolve_order(db, u, paypal_order_id, local_order_id)
           q == [IdleReq EXCEPT !.kind = "capture", !.user = u,
                                !.ext = paypal_order_id, !.order = found]
           a == [q EXCEPT !.local = local_order_id]
       IN IF paypal_order_id = "" THEN Return(r, a, "ValidationError", FALSE)
          ELSE IF found = 0 THEN Return(r, a, "OrderNotFound", FALSE)
          ELSE IF db.orders[found].customer_email # u
          THEN Return(r, a, "Forbidden", FALSE)
          ELSE IF ~awaits_capture(db.orders[found], paypal_order_id)
          THEN Return(r, a, "InconsistentState", FALSE)
          ELSE Goto(r, [q EXCEPT !.pc = "k_gateway",
                                 !.total = db.orders[found].total])
    /\ UNCHANGED <<db, txn, writer, cart, gwIssued, tree, captured>>

\* Lines 885-899: the answer carried purchase_units[0].payments.captures[0]
\* .amount with the order's currency and total.  (Kept with the request for the
\* record in captured; the code keeps nothing of the kind.)
carries_payment(resp, total) ==
    /\ resp.currency = Some("EUR")
    /\ resp.amount = Some(money_as_text(total))

\* Fault: the status test of lines 900-909 left out.
CaptureVerdict_without_status(resp, local_order_id, total) ==
    IF resp.reference_id # Absent /\ resp.reference_id[1] # local_order_id
    THEN "InconsistentState:reference"
    ELSE IF resp.currency # Absent /\ resp.currency[1] # "EUR"
    THEN "InconsistentState:currency"
    ELSE IF resp.amount # Absent /\ resp.amount[1] # money_as_text(total)
    THEN "InconsistentState:amount"
    ELSE "pass"

\* Fault: the amount comparison of lines 932-940 left out.
CaptureVerdict_without_amount(resp, local_order_id, total) ==
    IF resp.status # "COMPLETED" THEN "PaymentNotConfirmed"
    ELSE IF resp.reference_id # Absent /\ resp.reference_id[1] # local_order_id
    THEN "InconsistentState:reference"
    ELSE IF resp.currency # Absent /\ resp.currency[1] # "EUR"
    THEN "InconsistentState:currency"
    ELSE "pass"

\* Lines 900-940: the verdict on a capture answer; "pass" lets the capture go on.
CaptureVerdict(resp, local_order_id, total) ==
    IF resp.status # "COMPLETED" THEN "PaymentNotConfirmed"
    ELSE IF resp.reference_id # Absent /\ resp.reference_id[1] # local_order_id
    THEN "InconsistentState:reference"
    ELSE IF resp.currency # Absent /\ resp.currency[1] # "EUR"
    THEN "InconsistentState:currency"
    ELSE IF resp.amount # Absent /\ resp.amount[1] # money_as_text(total)
    THEN "InconsistentState:amount"
    ELSE "pass"

\* SELECT * FROM order_items WHERE order_id = ?
order_items(store, order_id) ==
    SelectSeq(store.items, LAMBDA it : it.order_id = order_id)

\* Lines 871-944: the gateway capture call, the verdict on its answer, and the
\* read of the order's lines (which no connection ever rewrites).
CaptureGateway(r, outcome, resp) ==
    /\ req[r].pc = "k_gateway"
    /\ LET verdict == CaptureVerdict(resp, req[r].order, req[r].total)
       IN IF outcome = "runtime_error"
          THEN Return(r, req[r], "PaymentFailed", TRUE)
          ELSE IF outcome = "exception"
          THEN Return(r, req[r], "ServerError", TRUE)
          ELSE IF verdict # "pass"
          THEN Return(r, req[r], verdict, TRUE)
          ELSE Goto(r, [req[r] EXCEPT
                          !.pc = "k_check", !.idx = 1,
                          !.items = order_items(db, req[r].order),
                          !.carried = carries_payment(resp, req[r].total),
                          !.paidId = IF resp.capture_id # Absent
                                     THEN resp.capture_id[1] ELSE req[r].ext])
    /\ UNCHANGED <<db, txn, writer, cart, gwIssued, tree, captured>>

\* Fault: the re-check loop decrements each line as soon as it has passed.
CaptureCheck_decrementing(r) ==
    /\ req[r].pc = "k_check"
    /\ LET item == req[r].items[req[r].idx]
           inventory == db.inventory
           short == \/ item.variant \notin DOMAIN inventory
                    \/ inventory[item.variant] < item.quantity
           lower == [inventory EXCEPT ![item.variant] = @ - item.quantity]
       IN IF short
          THEN /\ Return(r, req[r], "InsufficientStock", TRUE)
               /\ db' = db
          ELSE /\ Goto(r, [req[r] EXCEPT
                             !.idx = @ + 1,
                             !.pc = IF req[r].idx = Len(req[r].items)
                                    THEN "k_read" ELSE "k_check"])
               /\ db' = [db EXCEPT !.inventory = lower,
                                   !.products.stock = total_stock(lower)]
    /\ UNCHANGED <<txn, writer, cart, gwIssued, tree, captured>>

\* Lines 945-961, one pass of the loop: the stock re-check of one line.
CaptureCheck(r) ==
    /\ req[r].pc = "k_check"
    /\ LET item == req[r].items[req[r].idx]
           inventory == db.inventory
           short == \/ item.variant \notin DOMAIN inventory
                    \/ inventory[item.variant] < item.quantity
       IN IF short THEN Return(r, req[r], "InsufficientStock", TRUE)
          ELSE Goto(r, [req[r] EXCEPT
                          !.idx = @ + 1,
                          !.pc = IF req[r].idx = Len(req[r].items)
                                 THEN "k_read" ELSE "k_check"])
    /\ UNCHANGED <<db, txn, writer, cart, gwIssued, tree, captured>>

\* Lines 964-967 for the first line: the SELECT that precedes the first UPDATE,
\* still outside any transaction.
CaptureRead(r) ==
    /\ req[r].pc = "k_read"
    /\ Goto(r, [req[r] EXCEPT !.pc = "k_write",
                              !.inv = db.inventory[req[r].items[1].variant]])
    /\ UNCHANGED <<db, txn, writer, cart, gwIssued, tree, captured>>

\* Lines 968-979 for one line: UPDATE product_inventory SET quantity = read - qty,
\* then UPDATE products SET stock = SUM(quantity).
DecrementLine(store, item, read) ==
    LET inventory == [store.inventory EXCEPT ![item.variant] = read - item.quantity]
    IN [store EXCEPT !.inventory = inventory,
                     !.products.stock = total_stock(inventory)]

\* Lines 963-979 for the lines after the first: read and write under the lock.
RECURSIVE DecrementRest(_, _)
DecrementRest(store, items) ==
    IF items = <<>> THEN store
    ELSE DecrementRest(
             DecrementLine(store, Head(items),
                           store.inventory[Head(items).variant]),
             Tail(items))

\* Lines 980-991: UPDATE orders, INSERT INTO transactions.
MarkPaid(store, order_id, paid_id, total) ==
    [store EXCEPT
        !.orders[order_id].status = "confirmed",
        !.orders[order_id].payment_status = Paid(paid_id),
        !.transactions = Append(@, [order_id |-> order_id, total |-> total])]

\* Lines 968-1004: the first UPDATE takes the write lock and every later
\* statement runs in that transaction, which no other connection sees before
\* the commit; then session["cart"] = {}.
CaptureWrite(r) ==
    /\ req[r].pc = "k_write"
    /\ writer = 0
    /\ LET items == req[r].items
           first == DecrementLine(db, items[1], req[r].inv)
           rest == DecrementRest(first, Tail(items))
       IN commit(MarkPaid(rest, req[r].order, req[r].paidId, req[r].total))
    /\ cart' = [cart EXCEPT ![req[r].user] = EmptyCart]
    /\ captured' = captured \cup {<<req[r].order, req[r].ext, req[r].carried>>}
    /\ Return(r, req[r], "ok", TRUE)
    /\ UNCHANGED <<gwIssued, tree>>

\* sqlite3.connect's default timeout: a first write that waits 5 s for the lock
\* another connection holds (create_paypal_order holds it during its gateway
\* call) raises OperationalError, which no handler catches.
DbLocked(r) ==
    /\ req[r].pc = "k_write"
    /\ writer # 0
    /\ Return(r, req[r], "ServerError", TRUE)
    /\ UNCHANGED <<db, txn, writer, cart, gwIssued, tree, captured>>

\* ------------------------------------------------------ admin console
\* refresh_orders: SELECT * FROM orders WHERE status != 'completed'
refresh_orders(store) ==
    {o \in DOMAIN store.orders : store.orders[o].status # "completed"}

\* AdminApp.__init__ ends with refresh_all()
AdminStart ==
    /\ tree' = refresh_orders(db)
    /\ response' = Absent
    /\ UNCHANGED <<db, txn, writer, cart, req, gwIssued, captured>>

\* INSERT ... ON CONFLICT(product_id, color, size) DO UPDATE SET quantity
upsert(inventory, v, quantity) ==
    [w \in DOMAIN inventory \cup {v} |-> IF w = v THEN quantity ELSE inventory[w]]

\* update_inventory: quantity_str.isdigit(), so quantity >= 0
update_inventory(v, quantity) ==
    /\ writer = 0
    /\ LET inventory == upsert(db.inventory, v, quantity)
       IN db' = [db EXCEPT !.inventory = inventory,
                           !.products.stock = total_stock(inventory)]
    /\ response' = Absent
    /\ UNCHANGED <<txn, writer, cart, req, gwIssued, tree, captured>>

\* update_product_status
update_product_status(status) ==
    /\ writer = 0
    /\ db' = [db EXCEPT !.products.status = status]
    /\ response' = Absent
    /\ UNCHANGED <<txn, writer, cart, req, gwIssued, tree, captured>>

\* Fault: saving a product also rewrites the price of its order lines.
save_product_repricing(price_value, stock_value, status) ==
    /\ writer = 0
    /\ db' = [db EXCEPT !.products.price = price_value,
                        !.products.stock = stock_value,
                        !.products.status = status,
                        !.items = [i \in DOMAIN @ |->
                                      [@[i] EXCEPT !.price = price_value]]]
    /\ tree' = refresh_orders(db')
    /\ response' = Absent
    /\ UNCHANGED <<txn, writer, cart, req, gwIssued, captured>>

\* save_product on the product being edited, then refresh_all()
save_product(price_value, stock_value, status) ==
    /\ writer = 0
    /\ db' = [db EXCEPT !.products.price = price_value,
                        !.products.stock = stock_value,
                        !.products.status = status]
    /\ tree' = refresh_orders(db')
    /\ response' = Absent
    /\ UNCHANGED <<txn, writer, cart, req, gwIssued, captured>>

\* update_order_status("processing" | "accepted") on the selected order
update_order_status(order_id, status) ==
    /\ writer = 0
    /\ order_id \in tree
    /\ db' = [db EXCEPT !.orders[order_id].status = status]
    /\ tree' = refresh_orders(db')
    /\ response' = Absent
    /\ UNCHANGED <<txn, writer, cart, req, gwIssued, captured>>

\* Fault: completing an order also marks it paid.
complete_order_marking_paid(order_id) ==
    /\ writer = 0
    /\ order_id \in tree
    /\ db' = [db EXCEPT
                !.orders[order_id].status = "completed",
                !.orders[order_id].payment_status = Paid("manual"),
                !.transactions = Append(@, [order_id |-> order_id,
                                            total |-> db.orders[order_id].total])]
    /\ tree' = refresh_orders(db')
    /\ response' = Absent
    /\ UNCHANGED <<txn, writer, cart, req, gwIssued, captured>>

\* complete_order on the selected order, then refresh_all()
complete_order(order_id) ==
    /\ writer = 0
    /\ order_id \in tree
    /\ db' = [db EXCEPT
                !.orders[order_id].status = "completed",
                !.transactions = Append(@, [order_id |-> order_id,
                                            total |-> db.orders[order_id].total])]
    /\ tree' = refresh_orders(db')
    /\ response' = Absent
    /\ UNCHANGED <<txn, writer, cart, req, gwIssued, captured>>

\* ------------------------------------------------------ specifications
\* paypal_order.get("id"): missing, or an id the gateway now issues
NewIds == {Absent} \cup {Some(x) : x \in ExtIds \ gwIssued}

\* The cart handlers of the buyers in U, served on the request slots in R.
CartOps(R, U) ==
    \E r \in R, u \in U :
        \/ \E v \in AddInputs : add_to_cart(r, u, v)
        \/ \E v \in Variants, n \in -1..MaxQty + 1 : update_cart_item(r, u, v, n)
        \/ \E v \in Variants : remove_cart_item(r, u, v)

\* create_paypal_order for the buyers in U on the request slots in R.
Create(R, U) ==
    \E r \in R :
        \/ \E u \in U, form \in Forms :
               CreateInsert(r, u, collect_shipping_data(form) # Absent)
        \/ \E id \in NewIds : CreateGateway(r, "response", id)
        \/ \E outcome \in PaypalOutcomes \ {"response"} :
               CreateGateway(r, outcome, Absent)

\* capture_paypal_order_for_current_user for the buyers in U on the slots in R.
Capture(R, U) ==
    \E r \in R :
        \/ \E u \in U, x \in ExtIds \cup {""}, l \in 0..MaxExt :
               CaptureResolve(r, u, x, l)
        \/ \E resp \in Responses(req[r].total) :
               CaptureGateway(r, "response", resp)
        \/ \E outcome \in PaypalOutcomes \ {"response"} :
               CaptureGateway(r, outcome, NoResponse)
        \/ CaptureCheck(r)
        \/ CaptureRead(r)
        \/ CaptureWrite(r)

\* paypal_request on the request slots in R, under any configuration and network.
Paypal(R) ==
    \E r \in R :
        \/ \E configured \in BOOLEAN, env \in Envs, fallback \in BOOLEAN :
               PaypalStart(r, configured, env, fallback)
        \/ \E first \in Exchanges, second \in Exchanges :
               TokenRequest(r, first, second)
        \/ \E first \in Exchanges, second \in Exchanges :
               ApiRequest(r, first, second)

\* The checkout handlers of the buyers in U, served on the request slots in R.
Checkout(R, U) == Create(R, U) \/ Capture(R, U)

\* A capture that finds the write lock taken by a concurrent request.
Contention(R) == \E r \in R : DbLocked(r)

AdminOrders ==
    \/ AdminStart
    \/ \E o \in OrderIds, status \in {"processing", "accepted"} :
           update_order_status(o, status)
    \/ \E o \in OrderIds : complete_order(o)

AdminInventory ==
    \E v \in Variants, q \in 0..MaxQty : update_inventory(v, q)

AdminProducts ==
    \/ \E status \in {"active", "inactive"} : update_product_status(status)
    \/ \E p \in Prices, st \in 0..MaxQty, status \in {"active", "inactive"} :
           save_product(p, st, status)

\* Two buyers on concurrent requests, the admin console idle.
NextWeb == CartOps(Reqs, Users) \/ Checkout(Reqs, Users) \/ Contention(Reqs)
SpecWeb == Init /\ [][NextWeb]_vars

\* One buyer on concurrent requests (two tabs), the admin console idle.
NextStore ==
    CartOps(Reqs, {"u1"}) \/ Checkout(Reqs, {"u1"}) \/ Contention(Reqs)
SpecStore == Init /\ [][NextStore]_vars

\* Totals: a store with any catalogue price in whole cents and any inventory, a
\* buyer with any cart, and that buyer creating orders.
TotalsPrices == {19990, 5000, 24990}
InitTotals ==
    /\ \E price \in TotalsPrices, inventory \in [Variants -> 0..MaxUnits] :
          db = [InitDb(0) EXCEPT !.products.price = price,
                                 !.products.stock = total_stock(inventory),
                                 !.inventory = inventory]
    /\ txn = Absent
    /\ writer = 0
    /\ \E c \in [Variants -> 0..MaxUnits] :
          cart = [u \in Users |-> IF u = "u1" THEN c ELSE EmptyCart]
    /\ req = [r \in Reqs |-> IdleReq]
    /\ response = Absent
    /\ gwIssued = {}
    /\ tree = {}
    /\ captured = {}
NextTotals == Create({1}, {"u1"})
SpecTotals == InitTotals /\ [][NextTotals]_vars

\* One buyer, one request at a time, and the admin editing the product.
NextAdminProd ==
    \/ CartOps({1}, {"u1"})
    \/ Checkout({1}, {"u1"})
    \/ AdminProducts
SpecAdminProd == Init /\ [][NextAdminProd]_vars

\* Two buyers, one request at a time, the admin console idle.
NextTwo == CartOps({1}, Users) \/ Checkout({1}, Users)
SpecTwo == Init /\ [][NextTwo]_vars

\* paypal_request alone, one call at a time.
NextPaypal == Paypal({1})
SpecPaypal == Init /\ [][NextPaypal]_vars

\* paypal_request alone, every exchange it starts ending: urlopen and
\* direct_opener.open are called with timeout=20.
PaypalRuns ==
    \E first \in Exchanges, second \in Exchanges :
        TokenRequest(1, first, second) \/ ApiRequest(1, first, second)
SpecPaypalLive == SpecPaypal /\ WF_vars(PaypalRuns)

\* One buyer, one request at a time, the admin console idle.
NextSeq == CartOps({1}, {"u1"}) \/ Checkout({1}, {"u1"})
SpecSeq == Init /\ [][NextSeq]_vars

\* One buyer filling a cart and creating orders, one request at a time, while
\* the admin edits the inventory rows.
NextAdminInv ==
    \/ CartOps({1}, {"u1"})
    \/ Create({1}, {"u1"})
    \/ AdminInventory
SpecAdminInv == Init /\ [][NextAdminInv]_vars

\* One buyer, one request at a time, and the admin working on the orders tab.
NextAdminOrd ==
    \/ CartOps({1}, {"u1"})
    \/ Checkout({1}, {"u1"})
    \/ AdminOrders
SpecAdminOrd == Init /\ [][NextAdminOrd]_vars

\* create_paypal_order's committed writes for the cart c of u, lines 673-733
\* and 794-798, on a store with the cart's units in stock.
Placed(store, u, c, id) ==
    LET items == CartLines(c, store.products.price, VariantSeq)
        order_id == Len(store.orders) + 1
        row == [id |-> order_id, customer_email |-> u, status |-> "pending",
                payment_status |-> PaypalOrder(id), total |-> total_money(items)]
    IN InsertItems([store EXCEPT !.orders = Append(@, row)], order_id, items).store

\* The cart of one unit of the first variant.
OneUnit == [EmptyCart EXCEPT ![V1] = 1]

\* The capture's committed writes for order 1, lines 963-991.
Settled(store, y) ==
    MarkPaid(DecrementRest(store, order_items(store, 1)), 1, y,
             store.orders[1].total)

\* The admin console opened (AdminApp.__init__ ends with refresh_all) on a store
\* in which the shop has taken one order, still awaiting payment or paid; the
\* shop idle, the buyer's cart emptied.
InitAdmin ==
    /\ \E paid \in BOOLEAN :
          /\ db = IF paid THEN Settled(Placed(InitDb(1), "u1", OneUnit, "EXT1"), "CAP1")
                          ELSE Placed(InitDb(1), "u1", OneUnit, "EXT1")
          /\ captured = IF paid THEN {<<1, "EXT1", TRUE>>} ELSE {}
    /\ txn = Absent
    /\ writer = 0
    /\ cart = [u \in Users |-> EmptyCart]
    /\ req = [r \in Reqs |-> IdleReq]
    /\ response = Absent
    /\ gwIssued = {"EXT1"}
    /\ tree = refresh_orders(db)

\* The shop with an order of two lines awaiting its payment, both variants in
\* stock (the admin has added the second one) and the buyer's cart as it was
\* when the order was created.
InitCapture ==
    /\ LET inventory == upsert(InitDb(1).inventory, V2, 1)
           store == [InitDb(1) EXCEPT !.inventory = inventory,
                                      !.products.stock = total_stock(inventory)]
       IN db = Placed(store, "u1", [v \in Variants |-> 1], "EXT1")
    /\ txn = Absent
    /\ writer = 0
    /\ cart = [u \in Users |-> IF u = "u1" THEN [v \in Variants |-> 1]
                                           ELSE EmptyCart]
    /\ req = [r \in Reqs |-> IdleReq]
    /\ response = Absent
    /\ gwIssued = {"EXT1"}
    /\ tree = {}
    /\ captured = {}

\* The buyer capturing, one request at a time, while the admin edits the
\* inventory rows.
NextCapture == Capture({1}, {"u1"}) \/ AdminInventory
SpecCapture == InitCapture /\ [][NextCapture]_vars

\* The admin using every tab of the console, the shop idle.
Admin == AdminOrders \/ AdminInventory \/ AdminProducts
SpecAdmin == InitAdmin /\ [][Admin]_vars

\* ------------------------------------------------------------ properties
\* The number of Transaction rows of an order.
TransactionsOf(store, o) ==
    Cardinality({i \in DOMAIN store.transactions :
                    store.transactions[i].order_id = o})

\* The units of a variant on the lines of an order.
OrderedQty(store, o, v) ==
    LET lines == order_items(store, o)
    IN SumSeq([i \in DOMAIN lines |->
                 IF lines[i].variant = v THEN lines[i].quantity ELSE 0])

\* The committed captures of gateway order x.
CapturesOf(x) == {c \in captured : c[2] = x}

\* A capture request for gateway order x arrives (lines 823-870).
CaptureCall(x, l) == \E r \in Reqs, u \in Users : CaptureResolve(r, u, x, l)

C2_AppliedOnce ==
    \A c \in captured : TransactionsOf(db, c[1]) = 1

\* No order has been captured twice.
EachOrderOnce == \A o \in DOMAIN db.orders : TransactionsOf(db, o) <= 1

\* C3: concurrent captures of different orders; a capture succeeds in
\* decrementing only when the committed row still covers the order's units, and
\* it leaves the row lower by exactly those units (so a row of Q units serves
\* min(N,Q) of N one-unit captures and ends at max(Q-N,0)).
C3_NoOverselling ==
    [][\A r \in Reqs :
          (CaptureWrite(r) /\ EachOrderOnce /\ TransactionsOf(db, req[r].order) = 0)
              => \A v \in DOMAIN db.inventory :
                    /\ db.inventory[v] >= OrderedQty(db, req[r].order, v)
                    /\ db'.inventory[v] =
                          db.inventory[v] - OrderedQty(db, req[r].order, v)
      ]_vars

\* C4: every product_inventory row has quantity >= 0 in every reachable state
\* (already so in the runs where no order is captured twice).
C4_QuantityNonNegative ==
    EachOrderOnce => \A v \in DOMAIN db.inventory : db.inventory[v] >= 0

\* C5: requests served one after the other while the admin works on the orders
\* tab; every order whose payment_status begins with "paid:" has exactly one
\* Transaction row.
C5_OneTransactionPerPaidOrder ==
    \A o \in DOMAIN db.orders :
        db.orders[o].payment_status[1] = "paid" => TransactionsOf(db, o) = 1

\* The answer names another order, another currency or another amount.
Differs(resp, order_id, total) ==
    \/ resp.reference_id # Absent /\ resp.reference_id[1] # order_id
    \/ resp.currency # Absent /\ resp.currency[1] # "EUR"
    \/ resp.amount # Absent /\ resp.amount[1] # money_as_text(total)

\* C6: a COMPLETED capture answer whose reference id, currency or amount
\* differs from the order's is answered InconsistentState, and the request ends
\* there with the orders, the inventory rows, the product stock, the
\* transactions and the cart as they were.
C6_MismatchRejected ==
    [][\A r \in Reqs :
          \A resp \in Responses(req[r].total) :
             (/\ CaptureGateway(r, "response", resp)
              /\ resp.status = "COMPLETED"
              /\ Differs(resp, req[r].order, req[r].total))
                 => /\ response' # Absent
                    /\ response'[1].result \in {"InconsistentState:reference",
                                                "InconsistentState:currency",
                                                "InconsistentState:amount"}
                    /\ req'[r].pc = "idle"
                    /\ UNCHANGED <<db, txn, cart, captured>>
      ]_vars

\* A capture has just been refused for its amount; the order still waits for
\* its capture and has no Transaction row.
C6_Witness ==
    /\ response # Absent
    /\ response[1].kind = "capture"
    /\ response[1].result = "InconsistentState:amount"
    /\ db.orders[response[1].order].status = "pending"
    /\ db.orders[response[1].order].payment_status = PaypalOrder(response[1].ext)
    /\ TransactionsOf(db, response[1].order) = 0
    /\ cart[response[1].user] # EmptyCart

\* C7: every committed capture (order marked paid) had an answer that carried
\* the order's currency and the order's total.
C7_PaidOnlyIfCarried ==
    \A c \in captured : c[3]

\* C8: the payment_status of an order never goes back, never changes from one
\* gateway order id to another, and never changes once it begins with "paid".
C8_PaymentStatusMonotonic ==
    [][\A o \in DOMAIN db.orders :
          LET old == db.orders[o].payment_status
              new == db'.orders[o].payment_status
          IN /\ old[1] = "paid" => new = old
             /\ old[1] = "paypal_order" => (new = old \/ new[1] = "paid")
      ]_vars

\* C9: when the gateway call of create_paypal_order fails (RuntimeError, an
\* error nobody catches, or an answer without id) the request ends with the
\* orders and order_items of the store as they were, without the order it
\* inserted; and the store does not change while the request holds the write
\* lock, so they are as they were before the request.
C9_FailedCreateLeavesNothing ==
    /\ [][\A r \in Reqs, outcome \in PaypalOutcomes :
             (/\ CreateGateway(r, outcome, Absent))
                 => /\ response' # Absent
                    /\ response'[1].result \in {"PaymentFailed", "ServerError"}
                    /\ req'[r].pc = "idle"
                    /\ txn' = Absent
                    /\ db'.orders = db.orders
                    /\ db'.items = db.items
                    /\ req[r].order \notin DOMAIN db'.orders
                    /\ order_items(db', req[r].order) = <<>>
         ]_vars
    /\ [][(writer # 0 /\ writer' # 0) => db' = db]_vars

\* create_paypal_order has just answered PaymentFailed after its gateway call,
\* and the order it had inserted is not in the store.
C9_Witness ==
    /\ response # Absent
    /\ response[1].kind = "create"
    /\ response[1].result = "PaymentFailed"
    /\ response[1].called
    /\ response[1].order \notin DOMAIN db.orders
    /\ order_items(db, response[1].order) = <<>>

\* A cart line of buyer u that the stock does not cover.
ShortLine(u, v) ==
    /\ cart[u][v] > 0
    /\ v \notin DOMAIN db.inventory \/ db.inventory[v] < cart[u][v]

\* C10: create_paypal_order on a cart with a line whose inventory row is
\* missing or short is answered InsufficientStock before any gateway call, and
\* the store holds no row of the order: neither the order nor the items of the
\* lines before the short one.
C10_ShortStockLeavesNothing ==
    [][\A r \in Reqs, u \in Users :
          (/\ CreateInsert(r, u, TRUE)
           /\ writer = 0
           /\ \E v \in Variants : ShortLine(u, v))
              => /\ response' # Absent
                 /\ response'[1].result = "InsufficientStock"
                 /\ ~response'[1].called
                 /\ req'[r].pc = "idle"
                 /\ gwIssued' = gwIssued
                 /\ txn' = Absent
                 /\ db' = db
                 /\ response'[1].order \notin DOMAIN db'.orders
                 /\ order_items(db', response'[1].order) = <<>>
      ]_vars

\* create_paypal_order has just answered InsufficientStock for a cart whose
\* first line is covered and whose second line is short.
C10_Witness ==
    /\ response # Absent
    /\ response[1].kind = "create"
    /\ response[1].result = "InsufficientStock"
    /\ cart[response[1].user][V1] > 0
    /\ ~ShortLine(response[1].user, V1)
    /\ ShortLine(response[1].user, V2)
    /\ response[1].order \notin DOMAIN db.orders
    /\ order_items(db, response[1].order) = <<>>

\* An amount in mills rounded half-up to cents, by its definition: the cents c
\* with c - 0.005 <= amount < c + 0.005.
RoundHalfUp(mills) ==
    CHOOSE c \in 0..(mills \div 10 + 1) : 10 * c - 5 <= mills /\ mills < 10 * c + 5

\* A two-decimal text read back as cents.
text_as_cents(t) == t[1] * 100 + t[2]

\* The cart's subtotal in mills: sum over its lines of unit price x quantity.
CartSubtotal(u) ==
    SumOver([v \in Variants |-> db.products.price * cart[u][v]], Variants)

\* C11: for every cart at prices in whole cents, the total stored on the order
\* and sent to the gateway is subtotal + SHIPPING_FEE rounded half-up to cents,
\* and the breakdown sent satisfies item_total + shipping = amount.
C11_TotalIsRoundedSum ==
    [][\A r \in Reqs, id \in ExtIds :
          CreateGateway(r, "response", Some(id))
              => LET o == req[r].order
                     u == req[r].user
                     sent == purchase_unit(o, req[r].items)
                     total == RoundHalfUp(CartSubtotal(u) + SHIPPING_FEE)
                 IN /\ db'.orders[o].total = total
                    /\ text_as_cents(sent.value) = total
                    /\ sent.value[2] \in 0..99
                    /\ text_as_cents(sent.item_total) + text_as_cents(sent.shipping)
                          = text_as_cents(sent.value)
      ]_vars

\* An order of 2 units at 19.99 has just been created with total 49.97.
C11_Witness ==
    /\ response # Absent
    /\ response[1].kind = "create"
    /\ response[1].result = "ok"
    /\ db.products.price = 19990
    /\ cart[response[1].user] = [v \in Variants |-> IF v = V1 THEN 2 ELSE 0]
    /\ db.orders[response[1].order].total = 4997

\* C12: in every state between operations, products.stock is the sum of the
\* quantities of the product's inventory rows.
C12_StockIsSumOfRows ==
    db.products.stock = total_stock(db.inventory)

\* A cart add for buyer u and the variant chosen in the form arrives.
AddCall(u, v) == \E r \in Reqs : add_to_cart(r, u, v)

\* The answer just given.
Result == response'[1].result

\* C13 as stated: a cart add with an empty color or size is answered
\* ValidationError.
C13_AsStated ==
    [][\A u \in Users, v \in AddInputs :
          (AddCall(u, v) /\ (v[2] = "" \/ v[3] = ""))
              => Result = "ValidationError"
      ]_vars

\* C13: a cart add for a product that is not active is answered Unavailable.
\* For an active product it is answered ValidationError when color or size is
\* empty; else OutOfStock when the inventory row is missing or its quantity is
\* <= 0; else InsufficientStock when the cart's quantity + 1 exceeds the row's
\* quantity; else it succeeds and only that cart entry changes, by +1.  A
\* failing add leaves the cart as it was, and no add changes the store.
C13_CartAdd ==
    [][\A u \in Users, v \in AddInputs :
          AddCall(u, v)
              => LET active == db.products.status = "active"
                     empty == v[2] = "" \/ v[3] = ""
                     out == v \notin DOMAIN db.inventory \/ db.inventory[v] <= 0
                     over == ~out /\ cart[u][v] + 1 > db.inventory[v]
                 IN /\ ~active => Result = "Unavailable"
                    /\ (active /\ empty) => Result = "ValidationError"
                    /\ (active /\ ~empty /\ out) => Result = "OutOfStock"
                    /\ (active /\ ~empty /\ over) => Result = "InsufficientStock"
                    /\ (active /\ ~empty /\ ~out /\ ~over)
                          => /\ Result = "ok"
                             /\ cart' = [cart EXCEPT ![u][v] = cart[u][v] + 1]
                    /\ Result # "ok" => cart' = cart
                    /\ db' = db
      ]_vars

\* The spec's scenario: the row holds 1 unit, the cart holds it already, and a
\* further add has just been answered InsufficientStock; the row still holds 1.
C13_Witness ==
    /\ response # Absent
    /\ response[1].kind = "add"
    /\ response[1].result = "InsufficientStock"
    /\ db.inventory[V1] = 1
    /\ cart[response[1].user][V1] = 1

\* C14: a cart update to a quantity n <= 0, zero or negative, removes the
\* entry; to n above the row's quantity (or with no row) it is answered
\* InsufficientStock and leaves the cart as it was; otherwise it sets the entry
\* to n and changes no other entry.
C14_SetQuantity ==
    [][\A r \in Reqs, u \in Users, v \in Variants, n \in -1..MaxQty + 1 :
          update_cart_item(r, u, v, n)
              => LET over == v \notin DOMAIN db.inventory \/ n > db.inventory[v]
                 IN /\ n <= 0 => cart' = [cart EXCEPT ![u][v] = 0]
                    /\ (n > 0 /\ over)
                          => Result = "InsufficientStock" /\ cart' = cart
                    /\ (n > 0 /\ ~over) => cart' = [cart EXCEPT ![u][v] = n]
      ]_vars

\* The HTTP exchanges of the call on slot r so far, after the step.
LogAfter(r) == IF response' # Absent THEN response'[1].http ELSE req'[r].http

\* The exchanges the step added for the call on slot r.
Added(r) == SubSeq(LogAfter(r), Len(req[r].http) + 1, Len(LogAfter(r)))

\* The environment opposite to the configured one (unknown names are sandbox).
Opposite(env) == IF env = "live" THEN "sandbox" ELSE "live"

\* C15: the first token request goes to the configured environment and a
\* second one, to the opposite environment, follows only when the first was
\* rejected with 401 invalid_client and the fallback is enabled, and then it
\* does follow; after any other failure, and after any failure of the second,
\* the call ends in an error; there is never a third.
C15_EnvironmentFallback ==
    [][\A r \in Reqs, first \in Exchanges, second \in Exchanges :
          TokenRequest(r, first, second)
              => LET configured == IF req[r].env = "live" THEN "live" ELSE "sandbox"
                     got == Added(r)[Len(Added(r))].outcome
                     rejected == got = "http_401_invalid_client"
                     again == req'[r].pc = "p_token"
                 IN /\ req[r].index \in {1, 2}
                    /\ req[r].index = 1 => Added(r)[1].env = configured
                    /\ req[r].index = 2 => Added(r)[1].env = Opposite(configured)
                    /\ again <=> (req[r].index = 1 /\ rejected /\ req[r].fallback)
                    /\ again => req'[r].index = 2
                    /\ (~again /\ got # "ok")
                          => /\ response' # Absent
                             /\ Result \in {"runtime_error", "exception"}
      ]_vars

\* A call has just returned a response after the configured environment
\* rejected the credentials with 401 invalid_client and the opposite one
\* accepted them.
C15_Witness ==
    /\ response # Absent
    /\ response[1].kind = "paypal"
    /\ response[1].result = "response"
    /\ Len(response[1].http) = 3
    /\ response[1].http[1].outcome = "http_401_invalid_client"
    /\ response[1].http[1].env = "sandbox"
    /\ response[1].http[2].step = "token"
    /\ response[1].http[2].env = "live"
    /\ response[1].http[3].env = "live"

\* C16: each HTTP request of a call (token or API) goes out once through the
\* default opener; it is sent again, once and without proxy, exactly when that
\* first exchange failed on the proxy tunnel; the outcome of the request is then
\* that of the second exchange, whatever it is.
C16_ProxyRetry ==
    [][\A r \in Reqs, first \in Exchanges, second \in Exchanges :
          (TokenRequest(r, first, second) \/ ApiRequest(r, first, second))
              => LET sent == Added(r)
                 IN /\ Len(sent) \in {1, 2}
                    /\ sent[1].via = "default"
                    /\ sent[1].outcome = first
                    /\ Len(sent) = 2 <=> first = "tunnel_failed"
                    /\ Len(sent) = 2
                          => /\ sent[2].via = "direct"
                             /\ sent[2].step = sent[1].step
                             /\ sent[2].env = sent[1].env
                             /\ sent[2].outcome = second
                    /\ (Len(sent) = 2 /\ second \notin {"ok", "ok_no_token"})
                          => \/ response' # Absent
                                /\ Result \in {"runtime_error", "exception"}
                             \/ req'[r].pc = "p_token" /\ req'[r].index = 2
      ]_vars

\* A call has just failed after its API request met a failed proxy tunnel and
\* the retry without proxy failed too.
C16_Witness ==
    /\ response # Absent
    /\ response[1].kind = "paypal"
    /\ response[1].result = "runtime_error"
    /\ Len(response[1].http) = 3
    /\ response[1].http[2].step = "api"
    /\ response[1].http[2].outcome = "tunnel_failed"
    /\ response[1].http[3].via = "direct"
    /\ response[1].http[3].outcome = "url_error"

\* C17: a capture request with gateway order id E and no local order id, when
\* no order of the acting customer has payment_status "paypal_order:E", is
\* answered OrderNotFound; it calls no gateway and changes nothing.
C17_UnknownGatewayOrder ==
    [][\A r \in Reqs, u \in Users, E \in ExtIds :
          (/\ CaptureResolve(r, u, E, 0)
           /\ \A o \in DOMAIN db.orders :
                 \/ db.orders[o].customer_email # u
                 \/ db.orders[o].payment_status # PaypalOrder(E))
              => /\ response' # Absent
                 /\ Result = "OrderNotFound"
                 /\ ~response'[1].called
                 /\ req'[r].pc = "idle"
                 /\ UNCHANGED <<db, txn, cart, captured, gwIssued>>
      ]_vars

\* The spec's scenario: the buyer's only order waits for gateway order EXT1 and
\* a capture request for EXT2 has just been answered OrderNotFound.
C17_Witness ==
    /\ response # Absent
    /\ response[1].kind = "capture"
    /\ response[1].result = "OrderNotFound"
    /\ response[1].ext = "EXT2"
    /\ response[1].local = 0
    /\ Len(db.orders) = 1
    /\ db.orders[1].customer_email = response[1].user
    /\ db.orders[1].payment_status = PaypalOrder("EXT1")

\* The gateway call of the capture on slot r fails, or answers with a status
\* other than COMPLETED.
CaptureRefused(r) ==
    \/ CaptureGateway(r, "runtime_error", NoResponse)
    \/ CaptureGateway(r, "exception", NoResponse)
    \/ \E resp \in Responses(req[r].total) :
          resp.status # "COMPLETED" /\ CaptureGateway(r, "response", resp)

\* C18: when the gateway capture call fails or answers with a status other
\* than COMPLETED, the capture request fails and leaves orders, inventory,
\* product stock, transactions and cart as they were; the order still waits for
\* the same gateway order, so that a fresh capture request for it resolves the
\* order and passes the payment_status comparison again.
C18_RefusedCaptureLeavesOrder ==
    [][\A r \in Reqs :
          CaptureRefused(r)
              => LET o == req[r].order
                     x == req[r].ext
                 IN /\ response' # Absent
                    /\ Result \in {"PaymentFailed", "ServerError",
                                   "PaymentNotConfirmed"}
                    /\ req'[r].pc = "idle"
                    /\ UNCHANGED <<db, txn, cart, captured>>
                    /\ db'.orders[o].payment_status = PaypalOrder(x)
                    /\ resolve_order(db', req[r].user, x, 0) = o
                    /\ awaits_capture(db'.orders[o], x)
      ]_vars

\* A capture has just been answered PaymentNotConfirmed; the order still waits
\* for its gateway order, nothing was sold and the cart is still filled.
C18_Witness ==
    /\ response # Absent
    /\ response[1].kind = "capture"
    /\ response[1].result = "PaymentNotConfirmed"
    /\ db.orders[response[1].order].payment_status = PaypalOrder(response[1].ext)
    /\ db.orders[response[1].order].status = "pending"
    /\ db.transactions = <<>>
    /\ db.inventory[V1] = 1
    /\ cart[response[1].user] # EmptyCart

\* C19: the admin's complete_order sets the order's status to completed and
\* leaves the number of its Transaction rows as it was.
C19_CompleteAddsNoTransaction ==
    [][\A o \in OrderIds :
          complete_order(o)
              => /\ db'.orders[o].status = "completed"
                 /\ TransactionsOf(db', o) = TransactionsOf(db, o)
      ]_vars

\* C20: every Transaction row refers to an order whose payment_status begins
\* with "paid".
C20_TransactionsOfPaidOrders ==
    \A i \in DOMAIN db.transactions :
        db.orders[db.transactions[i].order_id].payment_status[1] = "paid"

\* The admin's status machine: pending -> processing -> accepted ->
\* completed, with completed also allowed from the payment-only confirmed.
AdminMachine ==
    {<<"pending", "processing">>, <<"processing", "accepted">>,
     <<"accepted", "completed">>, <<"confirmed", "completed">>}

\* C21: every admin order-status operation moves the selected order along
\* the machine pending -> processing -> accepted -> completed: it acts only
\* on an order in the predecessor status, never moves an order to an earlier
\* status, and never sets confirmed.
C21_AdminStatusMachine ==
    [][\A o \in OrderIds :
          (\/ \E status \in Statuses : update_order_status(o, status)
           \/ complete_order(o))
              => <<db.orders[o].status, db'.orders[o].status>> \in AdminMachine
      ]_vars

\* C22: completed is terminal: once an order's status is completed no later
\* step (admin action or capture of that order) changes its status.
C22_CompletedIsTerminal ==
    [][\A o \in DOMAIN db.orders :
          db.orders[o].status = "completed"
              => db'.orders[o].status = "completed"
      ]_vars

\* The payment_status column of the orders table, by order id.
PaymentStatuses(store) ==
    [o \in DOMAIN store.orders |-> store.orders[o].payment_status]

\* C23: no admin operation (marking an order processing or accepted,
\* completing it, upserting an inventory row, saving a product, updating a
\* product's status, refreshing the lists) changes any order's payment_status.
C23_AdminLeavesPaymentStatus ==
    [][Admin => PaymentStatuses(db') = PaymentStatuses(db)]_vars

\* The admin has completed an order that awaits its payment, edited the
\* product and its inventory rows, and the order awaits its payment as before.
C23_Witness ==
    /\ db.orders[1].status = "completed"
    /\ db.orders[1].payment_status = PaypalOrder("EXT1")
    /\ db.products.price # InitDb(1).products.price
    /\ db.products.status = "inactive"
    /\ V2 \in DOMAIN db.inventory

\* The total of order o computed again from the product's price of now.
Recomputed(store, o) ==
    LET lines == order_items(store, o)
    IN total_money([i \in DOMAIN lines |->
                       [lines[i] EXCEPT !.price = store.products.price]])

\* C24: an order's lines (their unit prices) and its total never change once
\* the order is created, whatever the admin saves on the product; a capture
\* answer that states an amount passes only with the stored total of the
\* order, and the Transaction a capture inserts records that stored total.
C24_PricesFrozen ==
    [][/\ \A o \in DOMAIN db.orders :
             /\ o \in DOMAIN db'.orders
             /\ db'.orders[o].total = db.orders[o].total
             /\ order_items(db', o) = order_items(db, o)
       /\ \A r \in Reqs :
             /\ req[r].pc = "k_gateway"
                  => \A resp \in Responses(req[r].total) :
                        (/\ CaptureGateway(r, "response", resp)
                         /\ req'[r].pc = "k_check"
                         /\ resp.amount # Absent)
                            => resp.amount[1]
                                 = money_as_text(db.orders[req[r].order].total)
             /\ CaptureWrite(r)
                  => db'.transactions
                       = Append(db.transactions,
                                [order_id |-> req[r].order,
                                 total |-> db.orders[req[r].order].total])
      ]_vars

\* A capture has just succeeded on an order whose product was repriced after
\* the order was created: the line keeps its price, and the Transaction holds
\* the stored total, which is not the total at the price of now.
C24_Witness ==
    /\ response # Absent
    /\ response[1].kind = "capture"
    /\ response[1].result = "ok"
    /\ LET o == response[1].order
       IN /\ order_items(db, o)[1].price # db.products.price
          /\ Recomputed(db, o) # db.orders[o].total
          /\ db.transactions[Len(db.transactions)]
               = [order_id |-> o, total |-> db.orders[o].total]

\* The seven required fields of the shipping form.
RequiredFields == Fields \ {"apartment"}

\* C25: create_paypal_order with a required shipping field empty answers
\* ValidationError, whatever the cart holds; with a complete address and an
\* empty cart it answers EmptyCart.  In both cases the request ends there
\* with no gateway request made, no order or order line written and the cart
\* as it was.
C25_ValidationFirst ==
    [][\A r \in Reqs, u \in Users, form \in Forms :
          LET incomplete == \E f \in RequiredFields : form[f] \in {"", " "}
              empty == cart[u] = EmptyCart
          IN (/\ CreateInsert(r, u, collect_shipping_data(form) # Absent)
              /\ incomplete \/ empty)
                 => /\ response' # Absent
                    /\ response'[1].result
                         = IF incomplete THEN "ValidationError" ELSE "EmptyCart"
                    /\ ~response'[1].called
                    /\ req'[r].pc = "idle"
                    /\ UNCHANGED <<db, txn, writer, cart, gwIssued>>
      ]_vars

\* A request with an incomplete form and an empty cart has just been refused
\* for its form, not for its cart; no order exists and the gateway was not
\* called.
C25_Witness ==
    /\ response # Absent
    /\ response[1].kind = "create"
    /\ response[1].result = "ValidationError"
    /\ ~response[1].called
    /\ cart[response[1].user] = EmptyCart
    /\ db.orders = <<>>
    /\ gwIssued = {}

\* C26: a successful create_paypal_order leaves a new order with status
\* pending and payment_status "paypal_order:<id>", <id> being the id in the
\* gateway's answer, which is also the id answered to the caller; the
\* reference id sent to the gateway is the new order's id; the order has one
\* line per cart line, with that line's quantity; the cart, the inventory
\* rows and the product are as they were.
C26_CreatedOrder ==
    [][\A r \in Reqs :
          /\ \A u \in Users, ok \in BOOLEAN :
                CreateInsert(r, u, ok) => cart' = cart /\ db' = db
          /\ \A x \in ExtIds :
                CreateGateway(r, "response", Some(x))
                   => LET o == req[r].order
                          u == req[r].user
                      IN /\ response' # Absent
                         /\ response'[1].result = "ok"
                         /\ response'[1].ext = x
                         /\ response'[1].order = o
                         /\ DOMAIN db'.orders = DOMAIN db.orders \cup {o}
                         /\ o \notin DOMAIN db.orders
                         /\ db'.orders[o].status = "pending"
                         /\ db'.orders[o].payment_status = PaypalOrder(x)
                         /\ db'.orders[o].customer_email = u
                         /\ purchase_unit(o, req[r].items).reference_id
                              = db'.orders[o].id
                         /\ \A v \in Variants : OrderedQty(db', o, v) = cart[u][v]
                         /\ Len(order_items(db', o))
                              = Cardinality({v \in Variants : cart[u][v] > 0})
                         /\ cart' = cart
                         /\ db'.inventory = db.inventory
                         /\ db'.products = db.products
      ]_vars

\* An order has just been created from a cart of two lines: it has two lines,
\* it awaits the capture of the id answered, and the cart still holds them.
C26_Witness ==
    /\ response # Absent
    /\ response[1].kind = "create"
    /\ response[1].result = "ok"
    /\ LET o == response[1].order
       IN /\ db.orders[o].status = "pending"
          /\ db.orders[o].payment_status = PaypalOrder(response[1].ext)
          /\ Len(order_items(db, o)) = 2
          /\ \A v \in Variants : cart[response[1].user][v] = 1

\* C27: the commit of a successful capture takes the store in one step from
\* the state before to the state with all of the capture's effects: every
\* inventory row lower by exactly the quantity the order holds of it, the
\* product's stock the sum of the rows, the order confirmed and paid with the
\* capture's id, one more Transaction of the order, with the order's total,
\* and the buyer's cart empty.
C27_CaptureAtomic ==
    [][\A r \in Reqs :
          CaptureWrite(r)
             => LET o == req[r].order
                IN /\ \A v \in DOMAIN db.inventory :
                         db'.inventory[v]
                           = db.inventory[v] - OrderedQty(db, o, v)
                   /\ db'.products.stock = total_stock(db'.inventory)
                   /\ db'.orders[o].status = "confirmed"
                   /\ db'.orders[o].payment_status = Paid(req[r].paidId)
                   /\ db'.transactions
                        = Append(db.transactions,
                                 [order_id |-> o, total |-> db.orders[o].total])
                   /\ cart'[req[r].user] = EmptyCart
      ]_vars

\* The line the stock re-check of request r is at has no inventory row, or a
\* row with less than the line's quantity.
Short(r) ==
    LET item == req[r].items[req[r].idx]
    IN \/ item.variant \notin DOMAIN db.inventory
       \/ db.inventory[item.variant] < item.quantity

\* C28: after the gateway's COMPLETED answer has passed the reference,
\* currency and amount checks, no pass of the stock re-check writes anything,
\* and a pass that finds a line's inventory row missing or short answers
\* InsufficientStock and ends the request: the inventory rows (those of the
\* lines already found sufficient included), the product's stock, the order,
\* the transactions and the cart are as they were.
C28_ShortAtCaptureWritesNothing ==
    [][\A r \in Reqs :
          CaptureCheck(r)
             => /\ UNCHANGED <<db, txn, cart, captured>>
                /\ Short(r)
                     => /\ response' # Absent
                        /\ response'[1].result = "InsufficientStock"
                        /\ req'[r].pc = "idle"
      ]_vars

\* A capture of a two-line order has just been refused at its second line,
\* whose row the admin had emptied: the first line's row still holds its
\* unit, and the order awaits its capture with no Transaction and the cart
\* full.
C28_Witness ==
    /\ response # Absent
    /\ response[1].kind = "capture"
    /\ response[1].result = "InsufficientStock"
    /\ LET o == response[1].order
       IN /\ Len(order_items(db, o)) = 2
          /\ db.inventory[V1] = 1
          /\ db.inventory[V2] = 0
          /\ db.products.stock = 1
          /\ db.orders[o].status = "pending"
          /\ db.orders[o].payment_status = PaypalOrder(response[1].ext)
          /\ TransactionsOf(db, o) = 0
          /\ cart[response[1].user] = [v \in Variants |-> 1]

\* The HTTP exchanges of the paypal_request call on slot 1, running or just
\* ended.
HttpLog == IF response # Absent THEN response[1].http ELSE req[1].http

\* The exchanges of the log that satisfy Test.
Attempts(Test(_)) == {i \in DOMAIN HttpLog : Test(HttpLog[i])}

\* C29: a paypal_request call makes at most 4 token exchanges, to at most two
\* environments, and at most 2 API exchanges, each request being sent at most
\* twice, the second time through the direct opener; and every call that has
\* started ends, with a response or an error.
C29_BoundedAttempts ==
    /\ [](/\ Cardinality(Attempts(LAMBDA e : e.step = "token")) <= 4
          /\ Cardinality(Attempts(LAMBDA e : e.step = "api")) <= 2
          /\ Cardinality({HttpLog[i].env :
                            i \in Attempts(LAMBDA e : e.step = "token")}) <= 2
          /\ \A s \in {"token", "api"}, env \in Envs :
                /\ Cardinality(Attempts(LAMBDA e : e.step = s /\ e.env = env
                                                   /\ e.via = "default")) <= 1
                /\ Cardinality(Attempts(LAMBDA e : e.step = s /\ e.env = env
                                                   /\ e.via = "direct")) <= 1)
    /\ (req[1].pc # "idle") ~> (req[1].pc = "idle" /\ response # Absent)

\* A call has just returned a response after the longest run there is: four
\* token exchanges and two API exchanges.
C29_Witness ==
    /\ response # Absent
    /\ response[1].kind = "paypal"
    /\ response[1].result = "response"
    /\ Cardinality(Attempts(LAMBDA e : e.step = "token")) = 4
    /\ Cardinality(Attempts(LAMBDA e : e.step = "api")) = 2
    /\ req[1].pc = "idle"

\* C30: a capture request reaches its gateway call only with an order that
\* was resolved, belongs to the session's customer and has payment_status
\* "paypal_order:<id>" for the id requested; a request naming, by its local
\* id, an order of another customer is answered Forbidden, even with that
\* order's own gateway id, and ends there with no gateway call and nothing
\* written.
C30_OwnerOnly ==
    [][\A r \in Reqs, u \in Users, x \in ExtIds \cup {""}, l \in 0..MaxExt :
          CaptureResolve(r, u, x, l)
             => /\ req'[r].pc = "k_gateway"
                  => /\ req'[r].order \in DOMAIN db.orders
                     /\ db.orders[req'[r].order].customer_email = u
                     /\ db.orders[req'[r].order].payment_status = PaypalOrder(x)
                /\ (/\ x # ""
                    /\ l \in DOMAIN db.orders
                    /\ db.orders[l].customer_email # u)
                     => /\ response' # Absent
                        /\ response'[1].result = "Forbidden"
                        /\ ~response'[1].called
                        /\ req'[r].pc = "idle"
                        /\ UNCHANGED <<db, txn, cart, captured, gwIssued>>
      ]_vars

\* A customer's capture request for another customer's order, with that
\* order's local id and gateway id, has just been answered Forbidden; the
\* order awaits its capture as before.
C30_Witness ==
    /\ response # Absent
    /\ response[1].kind = "capture"
    /\ response[1].result = "Forbidden"
    /\ ~response[1].called
    /\ response[1].local \in DOMAIN db.orders
    /\ LET order == db.orders[response[1].local]
       IN /\ order.customer_email # response[1].user
          /\ order.payment_status = PaypalOrder(response[1].ext)
          /\ order.status = "pending"
    /\ db.transactions = <<>>

====
